---- MODULE Spec2Model ----
(* Model of async-forward: the BufferHeads state machine and DuplexBuffer   *)
(* views of src/src/buffer.rs, and the Forwarder::poll copy loop of         *)
(* src/src/lib.rs, run against a nondeterministic reader, writer and        *)
(* executor.                                                                *)
EXTENDS Integers, Sequences, FiniteSets, TLC

\* ------------------------------------------------------------------ bounds
MaxCap == 4
MaxSrc == 4

\* ------------------------------------------------- BufferHeads (buffer.rs)
ReadReady == [tag |-> "ReadReady"]

WriteReady(point) == [tag |-> "WriteReady", point |-> point]

DuplexReady(write_head, read_head) ==
    [tag |-> "DuplexReady", write_head |-> write_head, read_head |-> read_head]

\* the value standing for a panic!() of the head state machine
Panicked == [tag |-> "panic"]

BufferHeads(max) ==
    {ReadReady}
      \cup {WriteReady(p) : p \in 0..(max - 1)}
      \cup {DuplexReady(w, r) : w \in 0..(max - 1), r \in 0..(max - 1)}

\* advance_read as it would be without the `% max` of buffer.rs 40
heads_advance_read_no_wrap(self, amount, max) ==
    IF self.tag = "WriteReady" \/ self.tag = "panic"
    THEN Panicked
    ELSE LET read_head0  == IF self.tag = "ReadReady" THEN 0 ELSE self.read_head
             write_head == IF self.tag = "ReadReady" THEN 0 ELSE self.write_head
             read_head  == read_head0 + amount
         IN  IF read_head = write_head
             THEN WriteReady(write_head)
             ELSE DuplexReady(write_head, read_head)

\* advance_read as it would be if a full buffer were taken like a partial one
heads_advance_read_full_accepted(self, amount, max) ==
    IF self.tag = "panic"
    THEN Panicked
    ELSE LET read_head0  == CASE self.tag = "ReadReady" -> 0
                              [] self.tag = "WriteReady" -> self.point
                              [] self.tag = "DuplexReady" -> self.read_head
             write_head == CASE self.tag = "ReadReady" -> 0
                              [] self.tag = "WriteReady" -> self.point
                              [] self.tag = "DuplexReady" -> self.write_head
             read_head  == (read_head0 + amount) % max
         IN  IF read_head = write_head
             THEN WriteReady(write_head)
             ELSE DuplexReady(write_head, read_head)

\* buffer.rs 28-49
heads_advance_read(self, amount, max) ==
    IF self.tag = "WriteReady" \/ self.tag = "panic"
    THEN Panicked
    ELSE LET read_head0  == IF self.tag = "ReadReady" THEN 0 ELSE self.read_head
             write_head == IF self.tag = "ReadReady" THEN 0 ELSE self.write_head
             read_head  == (read_head0 + amount) % max
         IN  IF read_head = write_head
             THEN WriteReady(write_head)
             ELSE DuplexReady(write_head, read_head)

\* advance_write as it would be without the collapse to ReadReady
heads_advance_write_no_collapse(self, amount, max) ==
    IF self.tag = "ReadReady" \/ self.tag = "panic"
    THEN Panicked
    ELSE LET write_head0 == IF self.tag = "WriteReady" THEN self.point ELSE self.write_head
             read_head   == IF self.tag = "WriteReady" THEN self.point ELSE self.read_head
             write_head  == (write_head0 + amount) % max
         IN  DuplexReady(write_head, read_head)

\* buffer.rs 52-73
heads_advance_write(self, amount, max) ==
    IF self.tag = "ReadReady" \/ self.tag = "panic"
    THEN Panicked
    ELSE LET write_head0 == IF self.tag = "WriteReady" THEN self.point ELSE self.write_head
             read_head   == IF self.tag = "WriteReady" THEN self.point ELSE self.read_head
             write_head  == (write_head0 + amount) % max
         IN  IF write_head = read_head
             THEN ReadReady
             ELSE DuplexReady(write_head, read_head)

\* read_ready as it would be if it did not look at the state
heads_read_ready_always(self) == TRUE

\* buffer.rs 77-82
heads_read_ready(self) == self.tag \in {"ReadReady", "DuplexReady"}

\* buffer.rs 86-91
heads_write_ready(self) == self.tag \in {"WriteReady", "DuplexReady"}

\* ------------------------------------------------ DuplexBuffer (buffer.rs)
\* A slice of the storage is the sequence of the storage indexes it covers.
Slice(from, to) == [i \in 1..(to - from) |-> from + i - 1]

split_at(len, point) == <<Slice(0, point), Slice(point, len)>>

\* split_thrice as it would be if the last unit started at the first point
split_thrice_overlapping(len, point1, point2) ==
    LET p1 == IF point1 <= point2 THEN point1 ELSE point2
        p2 == IF point1 <= point2 THEN point2 ELSE point1
    IN  <<Slice(0, p1), Slice(p1, p2), Slice(p1, len)>>

\* buffer.rs 109-120
split_thrice(len, point1, point2) ==
    LET p1 == IF point1 <= point2 THEN point1 ELSE point2
        p2 == IF point1 <= point2 THEN point2 ELSE point1
    IN  <<Slice(0, p1), Slice(p1, p2), Slice(p2, len)>>

\* get_buffers as it would be with write: [head, tail] at buffer.rs 144
get_buffers_head_first(h, len) ==
    CASE h.tag = "ReadReady" ->
           [read |-> <<Slice(0, len), <<>>>>, write |-> <<<<>>, <<>>>>]
      [] h.tag = "WriteReady" ->
           LET ht == split_at(len, h.point)
           IN  [read |-> <<<<>>, <<>>>>, write |-> <<ht[1], ht[2]>>]
      [] h.tag = "DuplexReady" ->
           LET b == split_thrice(len, h.write_head, h.read_head)
           IN  IF h.write_head < h.read_head
               THEN [read |-> <<b[3], b[1]>>, write |-> <<b[2], <<>>>>]
               ELSE [read |-> <<b[2], <<>>>>, write |-> <<b[3], b[1]>>]

\* buffer.rs 132-164: Buffers { read: [free segments], write: [filled segments] }
get_buffers(h, len) ==
    CASE h.tag = "ReadReady" ->
           [read |-> <<Slice(0, len), <<>>>>, write |-> <<<<>>, <<>>>>]
      [] h.tag = "WriteReady" ->
           LET ht == split_at(len, h.point)
           IN  [read |-> <<<<>>, <<>>>>, write |-> <<ht[2], ht[1]>>]
      [] h.tag = "DuplexReady" ->
           LET b == split_thrice(len, h.write_head, h.read_head)
           IN  IF h.write_head < h.read_head
               THEN [read |-> <<b[3], b[1]>>, write |-> <<b[2], <<>>>>]
               ELSE [read |-> <<b[2], <<>>>>, write |-> <<b[3], b[1]>>]

pair_len(pair) == Len(pair[1]) + Len(pair[2])

\* ------------------------------------------------------------------- state
VARIABLES
    capacity,    \* buffer.as_mut().len(), fixed at construction
    srcLen,      \* number of bytes the source holds before end-of-input
    srcPos,      \* number of bytes the reader has returned so far
    buffer,      \* DuplexBuffer.buffer: storage index -> byte
    heads,       \* DuplexBuffer.heads
    reader,      \* Forwarder.reader is Some(_)
    sink,        \* bytes the writer has accepted, in acceptance order
    result,      \* what the last poll returned: "Pending", "Ok" or a ForwarderError
    scheduled,   \* the executor has the task queued for a poll
    readWaker,   \* the reader holds a registered waker
    writeWaker,  \* the writer holds a registered waker
    last,        \* record of the attempts made by the most recent poll
    phase        \* flips on every poll

vars == <<capacity, srcLen, srcPos, buffer, heads, reader, sink, result,
          scheduled, readWaker, writeWaker, last, phase>>

\* The source's bytes are 1, 2, 3, ... so that every byte is distinguishable.
Src == [i \in 1..srcLen |-> i]

Concat(pair) == pair[1] \o pair[2]

\* outcomes of poll_read_vectored / poll_write_vectored. An endpoint that
\* answers WouldBlock is taken to have registered the waker, as one that
\* answers Pending has.
NotReady == {"Pending", "WouldBlock"}
Outcomes == {"Pending", "WouldBlock", "Interrupted", "Ok", "Err"}

NoTick == [read |-> "none", rn |-> 0, write |-> "none", wn |-> 0,
           before |-> ReadReady, mid |-> ReadReady, readerBefore |-> TRUE,
           offered |-> <<>>, wake |-> FALSE, ret |-> "Pending"]

\* Forwarder::new
Init ==
    /\ capacity \in 1..MaxCap
    /\ srcLen \in 0..MaxSrc
    /\ srcPos = 0
    /\ buffer = [i \in 0..(capacity - 1) |-> 0]
    /\ heads = ReadReady
    /\ reader = TRUE
    /\ sink = <<>>
    /\ result = "Pending"
    /\ scheduled = TRUE
    /\ readWaker = FALSE
    /\ writeWaker = FALSE
    /\ last = NoTick
    /\ phase = 0

\* --------------------------------------------------- Forwarder::poll (lib.rs)
\* The outcome of a step of poll: the heads and reader it leaves, the
\* "more work immediately possible" flag it sets, and what it makes poll
\* return ("Pending" stands for: poll goes on).

\* the not-ready arm as it would be without the WouldBlock guard of lib.rs 82
read_not_ready_arm_fatal(h, rd, ro) ==
    [heads |-> h, reader |-> rd, read_ready |-> FALSE,
     ret |-> IF ro = "WouldBlock" THEN "Read" ELSE "Pending"]

\* lib.rs 81-82: Poll::Pending, or an error of kind WouldBlock
read_not_ready_arm(h, rd, ro) ==
    [heads |-> h, reader |-> rd, read_ready |-> FALSE, ret |-> "Pending"]

\* the Ok(0) arm as it would be without this.reader.set(None)
read_eof_arm_keeps_reader(h, rd) ==
    [heads |-> h, reader |-> rd, read_ready |-> FALSE, ret |-> "Pending"]

\* lib.rs 87: Ok(0), this.reader.set(None)
read_eof_arm(h, rd) ==
    [heads |-> h, reader |-> FALSE, read_ready |-> FALSE, ret |-> "Pending"]

\* the Ok(n) arm as it would be without this.buffer.advance_read(n)
read_some_arm_no_advance(h, rd, rn, max) ==
    [heads |-> h, reader |-> rd, read_ready |-> TRUE, ret |-> "Pending"]

\* lib.rs 92-95: Ok(n), n > 0
read_some_arm(h, rd, rn, max) ==
    [heads |-> heads_advance_read(h, rn, max), reader |-> rd,
     read_ready |-> TRUE, ret |-> "Pending"]

\* the Interrupted arm as it would be without read_ready = true
read_interrupted_arm_no_retry(h, rd) ==
    [heads |-> h, reader |-> rd, read_ready |-> FALSE, ret |-> "Pending"]

\* lib.rs 101-103: an error of kind Interrupted
read_interrupted_arm(h, rd) ==
    [heads |-> h, reader |-> rd, read_ready |-> TRUE, ret |-> "Pending"]

\* the error arm as it would be if the error were dropped
read_error_arm_swallowed(h, rd) ==
    [heads |-> h, reader |-> rd, read_ready |-> FALSE, ret |-> "Pending"]

\* lib.rs 106: any other error
read_error_arm(h, rd) ==
    [heads |-> h, reader |-> rd, read_ready |-> FALSE, ret |-> "Read"]

\* lib.rs 71-109: the read step. ro is "none" when no read is attempted.
read_step(h, rd, ro, rn, max) ==
    CASE ro = "none" ->
           [heads |-> h, reader |-> rd, read_ready |-> FALSE, ret |-> "Pending"]
      [] ro \in NotReady -> read_not_ready_arm(h, rd, ro)
      [] ro = "Ok" /\ rn = 0 -> read_eof_arm(h, rd)
      [] ro = "Ok" /\ rn > 0 -> read_some_arm(h, rd, rn, max)
      [] ro = "Interrupted" -> read_interrupted_arm(h, rd)
      [] ro = "Err" -> read_error_arm(h, rd)

\* lib.rs 124-125: Poll::Pending, or an error of kind WouldBlock
write_not_ready_arm(h) ==
    [heads |-> h, write_ready |-> FALSE, ret |-> "Pending"]

\* the Ok(0) arm as it would be if zero were taken for a retryable outcome
write_zero_arm_ignored(h) ==
    [heads |-> h, write_ready |-> TRUE, ret |-> "Pending"]

\* lib.rs 130: Ok(0)
write_zero_arm(h) ==
    [heads |-> h, write_ready |-> FALSE, ret |-> "WriteClosedEarly"]

\* lib.rs 135-138: Ok(n), n > 0
write_some_arm(h, wn, max) ==
    [heads |-> heads_advance_write(h, wn, max), write_ready |-> TRUE,
     ret |-> "Pending"]

\* lib.rs 141-143: an error of kind Interrupted
write_interrupted_arm(h) ==
    [heads |-> h, write_ready |-> TRUE, ret |-> "Pending"]

\* lib.rs 145: any other error
write_error_arm(h) ==
    [heads |-> h, write_ready |-> FALSE, ret |-> "Write"]

\* lib.rs 113-147: the write step. wo is "none" when no write is attempted.
write_step(h, wo, wn, max) ==
    CASE wo = "none" ->
           [heads |-> h, write_ready |-> FALSE, ret |-> "Pending"]
      [] wo \in NotReady -> write_not_ready_arm(h)
      [] wo = "Ok" /\ wn = 0 -> write_zero_arm(h)
      [] wo = "Ok" /\ wn > 0 -> write_some_arm(h, wn, max)
      [] wo = "Interrupted" -> write_interrupted_arm(h)
      [] wo = "Err" -> write_error_arm(h)

\* the completion check as it would be without the write_ready() test
is_done_ignores_buffer(rd, h) == ~rd

\* lib.rs 151: the reader is done and the write buffer is empty
is_done(rd, h) == ~rd /\ ~heads_write_ready(h)

\* the wake decision as it would be if any progress marker woke the task
should_wake_any_progress(write_ready, read_ready, h) ==
    write_ready \/ read_ready

\* lib.rs 155: wake the waker because more work is immediately possible
should_wake(write_ready, read_ready, h) ==
    \/ write_ready /\ heads_write_ready(h)
    \/ read_ready /\ heads_read_ready(h)

\* the read guard as it would be without the read_buffer_len > 0 test
read_attempted_ignores_room(rd, h, max) == rd

\* lib.rs 72-76: a read is attempted only with a reader and room to read into
read_attempted(rd, h, max) == rd /\ pair_len(get_buffers(h, max).read) > 0

\* the write guard as it would be without the write_buffer_len > 0 test
write_attempted_always(h, max) == TRUE

\* lib.rs 113-117: a write is attempted only if there is data to be written
write_attempted(h, max) == pair_len(get_buffers(h, max).write) > 0

\* The storage after the reader put the next n source bytes into the free
\* view, first segment first.
fill(buf, free, n, pos) ==
    [i \in DOMAIN buf |->
        IF \E k \in 1..n : free[k] = i
        THEN Src[pos + (CHOOSE k \in 1..n : free[k] = i)]
        ELSE buf[i]]

\* One call of Forwarder::poll in which the reader answers (ro, rn) and the
\* writer answers (wo, wn).
PollBody(ro, rn, wo, wn) ==
    LET free    == Concat(get_buffers(heads, capacity).read)
        rs      == read_step(heads, reader, ro, rn, capacity)
        readOk  == ro = "Ok" /\ rn > 0
        buffer1 == IF readOk THEN fill(buffer, free, rn, srcPos) ELSE buffer
        early   == rs.ret # "Pending"
        filled  == Concat(get_buffers(rs.heads, capacity).write)
        offered == [k \in 1..Len(filled) |-> buffer1[filled[k]]]
        ws      == write_step(rs.heads, wo, wn, capacity)
        failed  == early \/ ws.ret # "Pending"
        done    == ~failed /\ is_done(rs.reader, ws.heads)
        wake    == ~failed /\ ~done
                     /\ should_wake(ws.write_ready, rs.read_ready, ws.heads)
        ret     == IF early THEN rs.ret
                   ELSE IF ws.ret # "Pending" THEN ws.ret
                   ELSE IF done THEN "Ok" ELSE "Pending"
    IN  /\ heads' = ws.heads
        /\ buffer' = buffer1
        /\ reader' = rs.reader
        /\ srcPos' = IF readOk THEN srcPos + rn ELSE srcPos
        /\ sink' = IF wo = "Ok" THEN sink \o SubSeq(offered, 1, wn) ELSE sink
        /\ result' = ret
        /\ scheduled' = wake
        /\ readWaker' = (readWaker \/ ro \in NotReady)
        /\ writeWaker' = (writeWaker \/ wo \in NotReady)
        /\ last' = [read |-> ro, rn |-> rn, write |-> wo, wn |-> wn,
                    before |-> heads, mid |-> rs.heads, readerBefore |-> reader,
                    offered |-> offered, wake |-> wake, ret |-> ret]
        /\ phase' = 1 - phase
        /\ UNCHANGED <<capacity, srcLen>>

\* What the reader may answer to this poll's read attempt: a count between 1
\* and the room offered while the source has bytes left, 0 at end-of-input,
\* not-ready, interrupted or another error; "none" when no read is attempted.
ReadAnswers ==
    IF ~read_attempted(reader, heads, capacity)
    THEN {<<"none", 0>>}
    ELSE LET room == pair_len(get_buffers(heads, capacity).read)
         IN  {<<o, 0>> : o \in Outcomes \ {"Ok"}}
               \cup {<<"Ok", n>> : n \in {k \in 1..room : k <= srcLen - srcPos}}
               \cup (IF srcPos = srcLen THEN {<<"Ok", 0>>} ELSE {})

\* What the writer may answer to the write attempt that follows the read
\* answer ra: a count between 0 and the length offered, not-ready,
\* interrupted or another error; "none" when no write is attempted.
WriteAnswers(ra) ==
    LET rs == read_step(heads, reader, ra[1], ra[2], capacity)
    IN  IF rs.ret # "Pending" \/ ~write_attempted(rs.heads, capacity)
        THEN {<<"none", 0>>}
        ELSE {<<o, 0>> : o \in Outcomes \ {"Ok"}}
               \cup {<<"Ok", n>> :
                       n \in 0..pair_len(get_buffers(rs.heads, capacity).write)}

AnyPoll ==
    \E ra \in ReadAnswers :
        \E wa \in WriteAnswers(ra) :
            PollBody(ra[1], ra[2], wa[1], wa[2])

\* the executor polls the task it has queued
Poll == result = "Pending" /\ scheduled /\ AnyPoll

\* the executor polls the task although nothing woke it
SpuriousPoll == result = "Pending" /\ ~scheduled /\ AnyPoll

\* the future is polled again after it returned Ready
PollAfterReady == result # "Pending" /\ AnyPoll

\* the reader's registered waker fires
WakeFromReader ==
    /\ result = "Pending" /\ readWaker
    /\ readWaker' = FALSE
    /\ scheduled' = TRUE
    /\ UNCHANGED <<capacity, srcLen, srcPos, buffer, heads, reader, sink,
                   result, writeWaker, last, phase>>

\* the writer's registered waker fires
WakeFromWriter ==
    /\ result = "Pending" /\ writeWaker
    /\ writeWaker' = FALSE
    /\ scheduled' = TRUE
    /\ UNCHANGED <<capacity, srcLen, srcPos, buffer, heads, reader, sink,
                   result, readWaker, last, phase>>

Next == Poll \/ WakeFromReader \/ WakeFromWriter

Spec == Init /\ [][Next]_vars

\* A run in which the future is polled at arbitrary times: also when nothing
\* woke it, and also after it returned Ready.
NextRepoll == Next \/ SpuriousPoll \/ PollAfterReady

SpecRepoll == Init /\ [][NextRepoll]_vars

\* ---------------------------------------------- runs with live endpoints
\* A poll in which no endpoint fails: the reader answers not-ready,
\* interrupted, bytes or end-of-input, the writer not-ready, interrupted or a
\* count of at least 1.
LiveAnswer(ans) == ans[1] # "Err"

LiveAccept(ans) == ans[1] # "Err" /\ ~(ans[1] = "Ok" /\ ans[2] = 0)

LivePoll ==
    /\ result = "Pending" /\ scheduled
    /\ \E ra \in {x \in ReadAnswers : LiveAnswer(x)} :
           \E wa \in {x \in WriteAnswers(ra) : LiveAccept(x)} :
               PollBody(ra[1], ra[2], wa[1], wa[2])

\* A poll in which every attempt made is answered at once: the reader hands
\* over bytes or end-of-input and the writer accepts at least one byte.
ProgressPoll ==
    /\ result = "Pending" /\ scheduled
    /\ \E ra \in {x \in ReadAnswers : x[1] \in {"Ok", "none"}} :
           \E wa \in {x \in WriteAnswers(ra) :
                        x[1] = "none" \/ (x[1] = "Ok" /\ x[2] > 0)} :
               PollBody(ra[1], ra[2], wa[1], wa[2])

NextLive == LivePoll \/ WakeFromReader \/ WakeFromWriter

\* Registered wakers fire, a queued task is polled, and the endpoints do not
\* answer not-ready or interrupted forever.
SpecLive ==
    /\ Init
    /\ [][NextLive]_vars
    /\ WF_vars(WakeFromReader)
    /\ WF_vars(WakeFromWriter)
    /\ SF_vars(ProgressPoll)

\* ------------------------------------- the DuplexBuffer used on its own
\* buffer.rs 181-183, called with an amount within the current free view
BufAdvanceRead(n) ==
    /\ n \in 1..pair_len(get_buffers(heads, capacity).read)
    /\ heads' = heads_advance_read(heads, n, capacity)
    /\ last' = [NoTick EXCEPT !.read = "Ok", !.rn = n, !.before = heads,
                              !.mid = heads_advance_read(heads, n, capacity)]
    /\ UNCHANGED <<capacity, srcLen, srcPos, buffer, reader, sink, result,
                   scheduled, readWaker, writeWaker, phase>>

\* buffer.rs 186-188, called with an amount within the current filled view
BufAdvanceWrite(n) ==
    /\ n \in 1..pair_len(get_buffers(heads, capacity).write)
    /\ heads' = heads_advance_write(heads, n, capacity)
    /\ last' = [NoTick EXCEPT !.write = "Ok", !.wn = n, !.before = heads,
                              !.mid = heads_advance_write(heads, n, capacity)]
    /\ UNCHANGED <<capacity, srcLen, srcPos, buffer, reader, sink, result,
                   scheduled, readWaker, writeWaker, phase>>

InitHeads == Init /\ srcLen = 0

NextHeads ==
    \/ \E n \in 1..MaxCap : BufAdvanceRead(n)
    \/ \E n \in 1..MaxCap : BufAdvanceWrite(n)

SpecHeads == InitHeads /\ [][NextHeads]_vars

\* ------------------------- the DuplexBuffer called with arbitrary amounts
\* buffer.rs 29 / 53: debug_assert!(amount.get() <= max) panics in a build
\* with debug assertions and is compiled out otherwise.
debug_assert_fails(amount, max, debug) == debug /\ amount > max

\* buffer.rs 181-183 with buffer.rs 28-49
buf_advance_read(h, amount, max, debug) ==
    IF debug_assert_fails(amount, max, debug)
    THEN Panicked
    ELSE heads_advance_read(h, amount, max)

\* buffer.rs 186-188 with buffer.rs 52-73
buf_advance_write(h, amount, max, debug) ==
    IF debug_assert_fails(amount, max, debug)
    THEN Panicked
    ELSE heads_advance_write(h, amount, max)

\* DuplexBuffer::advance_read(n) called in any state with any n >= 1
CallAdvanceRead(n, debug) ==
    /\ heads # Panicked
    /\ heads' = buf_advance_read(heads, n, capacity, debug)
    /\ last' = [NoTick EXCEPT !.read = "Ok", !.rn = n, !.before = heads,
                              !.mid = buf_advance_read(heads, n, capacity, debug)]
    /\ UNCHANGED <<capacity, srcLen, srcPos, buffer, reader, sink, result,
                   scheduled, readWaker, writeWaker, phase>>

\* DuplexBuffer::advance_write(n) called in any state with any n >= 1
CallAdvanceWrite(n, debug) ==
    /\ heads # Panicked
    /\ heads' = buf_advance_write(heads, n, capacity, debug)
    /\ last' = [NoTick EXCEPT !.write = "Ok", !.wn = n, !.before = heads,
                              !.mid = buf_advance_write(heads, n, capacity, debug)]
    /\ UNCHANGED <<capacity, srcLen, srcPos, buffer, reader, sink, result,
                   scheduled, readWaker, writeWaker, phase>>

NextContract ==
    \/ \E n \in 1..(MaxCap + 1), debug \in BOOLEAN : CallAdvanceRead(n, debug)
    \/ \E n \in 1..(MaxCap + 1), debug \in BOOLEAN : CallAdvanceWrite(n, debug)

SpecContract == InitHeads /\ [][NextContract]_vars

\* ------------------------------------------------ the exact-fill scenario
\* Capacity 4; the source hands over its 4 bytes in one read and reports
\* end-of-input at the next read attempt, without ever being not-ready. The
\* sink does not fail.
InitFill == Init /\ capacity = 4 /\ srcLen = 4

FillRead(ans) ==
    \/ ans[1] = "none"
    \/ ans[1] = "Ok" /\ ans[2] \in {0, srcLen}

FillPollBody ==
    \E ra \in {x \in ReadAnswers : FillRead(x)} :
        \E wa \in {x \in WriteAnswers(ra) : LiveAccept(x)} :
            PollBody(ra[1], ra[2], wa[1], wa[2])

FillPoll == result = "Pending" /\ scheduled /\ FillPollBody

FillSpuriousPoll == result = "Pending" /\ ~scheduled /\ FillPollBody

NextFill == FillPoll \/ FillSpuriousPoll \/ WakeFromWriter

SpecFill == InitFill /\ [][NextFill]_vars

\* ----------------------------------------------------------------- helpers
\* this step is a call of poll
IsPoll == phase' # phase

IsPrefix(s, t) == Len(s) <= Len(t) /\ \A k \in 1..Len(s) : s[k] = t[k]

\* the bytes read from the source so far, in read order
Received == SubSeq(Src, 1, srcPos)

Transient == {"Pending", "WouldBlock", "Interrupted"}

Failures == {"Read", "Write", "WriteClosedEarly"}

free_length(h, max) == pair_len(get_buffers(h, max).read)

filled_length(h, max) == pair_len(get_buffers(h, max).write)

TypeOK ==
    /\ heads \in BufferHeads(capacity)
    /\ srcPos \in 0..srcLen
    /\ Len(sink) <= srcPos

\* ------------------------------------------------------------------ claims
\* C1: order preservation. At every point of every run the bytes accepted by
\* the sink, in acceptance order, are a prefix of the bytes read from the
\* source, in read order.
C1_OrderPreserved == IsPrefix(sink, Received)

\* A write took bytes from both segments of a filled view that wraps past the
\* end of storage, and with it the sink holds the whole source.
C1_Witness ==
    /\ last.write = "Ok"
    /\ Len(get_buffers(last.mid, capacity).write[2]) > 0
    /\ last.wn > Len(get_buffers(last.mid, capacity).write[1])
    /\ srcLen > capacity
    /\ sink = Src

\* C2: suspension only at not-ready points. Whenever poll returns Pending
\* without waking the waker, a read or write attempt of that poll reported
\* not-ready; the task is never suspended with neither a registered waker nor
\* a requested re-schedule.
C2_SuspendedOnlyWhenNotReady ==
    (last # NoTick /\ result = "Pending") =>
        /\ ~last.wake => (last.read \in NotReady \/ last.write \in NotReady)
        /\ scheduled \/ readWaker \/ writeWaker

\* C3: eventual completion. With a finite source, endpoints that do not
\* fail, registered wakers that fire and a poll after every wake, the task
\* eventually returns success.
C3_EventuallySuccess == <>(result = "Ok")

\* C4: completion after end-of-input. A read that returns zero bytes drops
\* the reader, and a poll without a reader attempts no read; a poll at whose
\* end the reader is absent and the filled view is empty returns success; and
\* a poll made after success attempts no read and no write and returns
\* success again.
C4_CompletionAfterEof ==
    [][IsPoll =>
        /\ (last'.read = "Ok" /\ last'.rn = 0) => ~reader'
        /\ ~reader => (last'.read = "none" /\ ~reader')
        /\ (~reader' /\ filled_length(heads', capacity) = 0) => result' = "Ok"
        /\ result = "Ok" =>
              (last'.read = "none" /\ last'.write = "none" /\ result' = "Ok")
      ]_vars

\* The task forwarded a non-empty source, returned success, and was polled
\* once more: that poll started without a reader on an empty buffer.
C4_Witness ==
    /\ result = "Ok"
    /\ srcLen > 0 /\ sink = Src
    /\ ~last.readerBefore
    /\ last.before = ReadReady
    /\ last.read = "none" /\ last.write = "none"

\* C5: success means everything was forwarded. When the task has returned
\* success the source has reported end-of-input, the buffer is Empty and the
\* sink holds exactly the bytes read from the source; every result is
\* success, Pending or one of the failures Read, Write, WriteClosedEarly.
C5_SuccessMeansForwarded ==
    /\ result \in {"Pending", "Ok"} \cup Failures
    /\ result = "Ok" =>
          /\ ~reader /\ srcPos = srcLen
          /\ heads = ReadReady
          /\ sink = Received /\ sink = Src

\* Success after the last bytes were written in a poll of their own, after
\* end-of-input had been seen.
C5_Witness ==
    /\ result = "Ok"
    /\ Len(sink) >= 2
    /\ ~last.readerBefore
    /\ last.write = "Ok" /\ last.wn >= 1

\* C6: early-close detection. A write attempt (made with a non-empty filled
\* view) that returns zero makes the poll return WriteClosedEarly; the write
\* leaves the head state as it found it, the sink gets nothing, no wake is
\* requested, and no poll (so no write and no read) follows.
C6_EarlyClose ==
    [][/\ (IsPoll /\ last'.write = "Ok" /\ last'.wn = 0) =>
            /\ Len(last'.offered) > 0
            /\ result' = "WriteClosedEarly"
            /\ heads' = last'.mid
            /\ sink' = sink
            /\ ~last'.wake /\ ~scheduled'
       /\ result = "WriteClosedEarly" =>
            (~IsPoll /\ sink' = sink /\ srcPos' = srcPos /\ heads' = heads)
      ]_vars

\* The sink closed while bytes read in an earlier poll were still queued.
C6_Witness ==
    /\ result = "WriteClosedEarly"
    /\ last.write = "Ok" /\ last.wn = 0
    /\ last.read # "Ok"
    /\ filled_length(heads, capacity) >= 2

\* C7: fatal endpoint errors terminate immediately. A read error that is
\* neither would-block nor interrupted makes the poll return Read without a
\* write attempt; any such write error makes it return Write; the failing
\* attempt leaves the head state as it found it, no wake is requested, and
\* the sink never receives another byte.
C7_FatalErrors ==
    [][/\ (IsPoll /\ last'.read = "Err") =>
            /\ result' = "Read"
            /\ last'.write = "none"
            /\ heads' = heads /\ reader' = reader
            /\ sink' = sink
            /\ ~last'.wake /\ ~scheduled'
       /\ (IsPoll /\ last'.write = "Err") =>
            /\ result' = "Write"
            /\ heads' = last'.mid
            /\ sink' = sink
            /\ ~last'.wake /\ ~scheduled'
       /\ result \in {"Read", "Write"} =>
            (~IsPoll /\ sink' = sink /\ heads' = heads)
      ]_vars

\* A read error with bytes still queued in the filled view.
C7_Witness ==
    /\ result = "Read"
    /\ last.read = "Err"
    /\ filled_length(heads, capacity) >= 1
    /\ Len(sink) < srcPos

\* C8: transient outcomes never surface. A not-ready or interrupted read
\* leaves heads, reader and source position as they were and the poll returns
\* neither Read nor success; a not-ready or interrupted write leaves heads and
\* sink as the read step left them and the poll returns Pending.
C8_TransientNeverSurfaces ==
    [][IsPoll =>
        /\ last'.read \in Transient =>
              /\ last'.mid = heads
              /\ reader' = reader
              /\ srcPos' = srcPos /\ buffer' = buffer
              /\ result' \notin {"Read", "Ok"}
              /\ last'.write \in Transient \cup {"none"} =>
                    (result' = "Pending" /\ heads' = heads)
        /\ last'.write \in Transient =>
              /\ heads' = last'.mid
              /\ sink' = sink
              /\ result' = "Pending"
      ]_vars

\* Both attempts of one poll were answered WouldBlock, with data queued.
C8_Witness ==
    /\ last.read = "WouldBlock" /\ last.write = "WouldBlock"
    /\ heads.tag = "DuplexReady"
    /\ result = "Pending"

\* C9: interrupted is retried on the next tick. An interrupted read or write
\* consumes, loses and duplicates nothing, and unless the poll ends in a
\* terminal result it wakes the waker and leaves the interrupted operation
\* possible for the next poll.
C9_InterruptedRetried ==
    [][IsPoll =>
        /\ last'.read = "Interrupted" =>
              /\ last'.mid = heads
              /\ srcPos' = srcPos /\ buffer' = buffer
              /\ result' = "Pending" =>
                    /\ last'.wake /\ scheduled'
                    /\ read_attempted(reader', heads', capacity)
        /\ last'.write = "Interrupted" =>
              /\ heads' = last'.mid
              /\ sink' = sink
              /\ result' = "Pending"
              /\ last'.wake /\ scheduled'
              /\ write_attempted(heads', capacity)
      ]_vars

\* An interrupted read on a Partial buffer whose write step then emptied the
\* buffer: the poll still asks to be polled again.
C9_Witness ==
    /\ last.read = "Interrupted"
    /\ last.write = "Ok" /\ last.wn >= 1
    /\ heads = ReadReady
    /\ result = "Pending" /\ scheduled

\* C10: length invariant. In every head state reached from Empty by
\* advance_read / advance_write with amounts within the current view, every
\* cursor is in 0..capacity-1, a DuplexReady state has different cursors, and
\* the free and filled views of get_buffers have total length capacity.
C10_LengthInvariant ==
    /\ heads \in BufferHeads(capacity)
    /\ heads.tag = "DuplexReady" => heads.write_head # heads.read_head
    /\ free_length(heads, capacity) + filled_length(heads, capacity) = capacity

\* An advance_read that wrapped the read cursor past the end of storage into
\* a Partial state.
C10_Witness ==
    /\ last.read = "Ok"
    /\ last.before.tag = "DuplexReady"
    /\ heads.tag = "DuplexReady"
    /\ heads.read_head < last.before.read_head
    /\ heads.read_head > 0

\* ------------------------------------------- cursors and arcs of a head state
\* the storage indexes a view segment or view covers
Indexes(seq) == {seq[k] : k \in 1..Len(seq)}

\* the n indexes from `from` on, going round the end of storage
Arc(from, n, max) == [k \in 1..n |-> (from + k - 1) % max]

\* where the next byte read in is stored (read_head of buffer.rs; 0 when
\* ReadReady, the point when WriteReady)
write_in_head(h) ==
    CASE h.tag = "ReadReady" -> 0
      [] h.tag = "WriteReady" -> h.point
      [] h.tag = "DuplexReady" -> h.read_head

\* where the next byte written out is taken from (write_head of buffer.rs)
read_out_head(h) ==
    CASE h.tag = "ReadReady" -> 0
      [] h.tag = "WriteReady" -> h.point
      [] h.tag = "DuplexReady" -> h.write_head

\* the forward distance from read_out_head to write_in_head
filled_arc_length(h, max) ==
    CASE h.tag = "ReadReady" -> 0
      [] h.tag = "WriteReady" -> max
      [] h.tag = "DuplexReady" -> (h.read_head - h.write_head + max) % max

\* C11: disjoint views. In every reachable head state the indexes of the free
\* view and those of the filled view are disjoint and together cover every
\* index 0..capacity-1 exactly once.
C11_DisjointViews ==
    LET b == get_buffers(heads, capacity)
        r == Concat(b.read)
        w == Concat(b.write)
    IN  /\ Indexes(r) \cap Indexes(w) = {}
        /\ Indexes(r) \cup Indexes(w) = 0..(capacity - 1)
        /\ Len(r) + Len(w) = capacity

\* A Partial state whose filled view wraps: both of its segments and the
\* free view are non-empty.
C11_Witness ==
    LET b == get_buffers(heads, capacity)
    IN  /\ heads.tag = "DuplexReady"
        /\ Len(b.write[1]) > 0 /\ Len(b.write[2]) > 0
        /\ Len(b.read[1]) > 0

\* C12: arc order of views. The free segments, concatenated, are the indexes
\* from write_in_head up to but excluding read_out_head (the whole storage
\* from 0 when Empty, nothing when Full); the filled segments are the indexes
\* from read_out_head up to but excluding write_in_head (nothing when Empty,
\* the whole storage from P when Full(P)). A second segment is non-empty only
\* when the arc wraps past the end of storage, and a first segment is
\* non-empty whenever the arc is.
C12_ArcOrder ==
    LET b   == get_buffers(heads, capacity)
        g   == filled_arc_length(heads, capacity)
        f   == capacity - g
        wi  == write_in_head(heads)
        ro  == read_out_head(heads)
    IN  /\ Concat(b.read) = Arc(wi, f, capacity)
        /\ Concat(b.write) = Arc(ro, g, capacity)
        /\ Len(b.read[2]) > 0 => wi + f > capacity
        /\ Len(b.write[2]) > 0 => ro + g > capacity
        /\ f > 0 => Len(b.read[1]) > 0
        /\ g > 0 => Len(b.write[1]) > 0

\* A free view that wraps: it starts in the middle of the storage and goes
\* on at index 0.
C12_Witness ==
    LET b == get_buffers(heads, capacity)
    IN  /\ heads.tag = "DuplexReady"
        /\ Len(b.read[1]) > 0 /\ Len(b.read[2]) > 0
        /\ b.read[2][1] = 0
        /\ b.read[1][1] = heads.read_head

C17_Readiness ==
    /\ heads_read_ready(heads) <=> heads.tag # "WriteReady"
    /\ heads_read_ready(heads) <=> free_length(heads, capacity) > 0
    /\ heads_write_ready(heads) <=> heads.tag # "ReadReady"
    /\ heads_write_ready(heads) <=> filled_length(heads, capacity) > 0
    /\ heads_read_ready(heads) \/ heads_write_ready(heads)

\* A Full state reached by reads that wrapped: only write_ready() holds.
C17_Witness ==
    /\ heads.tag = "WriteReady" /\ heads.point > 0
    /\ ~heads_read_ready(heads) /\ heads_write_ready(heads)

\* C14: advance amount is bounded by the view. A call of advance_read(n) with
\* n larger than the free view, or of advance_write(n) with n larger than the
\* filled view, is rejected and produces no new head state.
C14_AmountBoundedByView ==
    [][/\ (last'.read = "Ok" /\ last'.rn > free_length(heads, capacity))
             => heads' = Panicked
       /\ (last'.write = "Ok" /\ last'.wn > filled_length(heads, capacity))
             => heads' = Panicked
      ]_vars

\* C15: contract rejection. advance_read on a Full (WriteReady) state and
\* advance_write on an Empty (ReadReady) state panic for every amount; every
\* other pair of state and operation, with an amount that passes the
\* debug assertion, yields a head state.
C15_ContractRejection ==
    [][/\ last'.read = "Ok" =>
            IF heads.tag = "WriteReady"
            THEN heads' = Panicked
            ELSE last'.rn <= capacity => heads' \in BufferHeads(capacity)
       /\ last'.write = "Ok" =>
            IF heads.tag = "ReadReady"
            THEN heads' = Panicked
            ELSE last'.wn <= capacity => heads' \in BufferHeads(capacity)
      ]_vars

\* advance_read was called on a Full buffer with an amount that passes the
\* debug assertion, and panicked.
C15_Witness ==
    /\ heads = Panicked
    /\ last.read = "Ok" /\ last.rn <= capacity
    /\ last.before.tag = "WriteReady"

\* C16: the driver never violates the buffer contract. With endpoints that
\* return no more than the length offered, no poll attempts a read while the
\* heads are Full or a write while they are Empty, and neither panic of the
\* head state machine is reached.
C16_DriverKeepsContract ==
    [][IsPoll =>
        /\ last'.read # "none" =>
              (heads.tag # "WriteReady" /\ last'.rn <= free_length(heads, capacity))
        /\ last'.write # "none" =>
              /\ last'.mid.tag # "ReadReady"
              /\ last'.wn <= filled_length(last'.mid, capacity)
        /\ last'.mid # Panicked
        /\ heads' # Panicked
      ]_vars

\* A poll that started on a Full buffer with the reader present: it made no
\* read attempt and a write that was accepted.
C16_Witness ==
    /\ last.before.tag = "WriteReady"
    /\ last.readerBefore
    /\ last.read = "none"
    /\ last.write = "Ok" /\ last.wn >= 1

\* C18: bounded work per tick. A poll takes from the source at most what one
\* read into the free view can return and hands the sink at most what one
\* write of the filled view can accept; the write is made from the filled
\* view as the read of the same poll left it, so the bytes just read, also
\* into an Empty buffer, are offered to the sink in that poll.
C18_BoundedWorkPerTick ==
    [][IsPoll =>
        /\ srcPos' - srcPos = (IF last'.read = "Ok" THEN last'.rn ELSE 0)
        /\ srcPos' - srcPos <= free_length(heads, capacity)
        /\ Len(sink') - Len(sink) = (IF last'.write = "Ok" THEN last'.wn ELSE 0)
        /\ Len(sink') - Len(sink) <= Len(last'.offered)
        /\ last'.write # "none" =>
              /\ Len(last'.offered) = filled_length(last'.mid, capacity)
              /\ last'.offered = SubSeq(Src, Len(sink) + 1, srcPos')
        /\ (last'.read = "Ok" /\ last'.rn > 0) =>
              /\ last'.mid = heads_advance_read(heads, last'.rn, capacity)
              /\ last'.write # "none"
      ]_vars

\* One poll read bytes into an Empty buffer and wrote all of them out.
C18_Witness ==
    /\ last.before = ReadReady
    /\ last.read = "Ok" /\ last.rn >= 2
    /\ last.write = "Ok" /\ last.wn = last.rn
    /\ Len(sink) = last.rn

\* C19: re-schedule rule. A poll that returns Pending wakes the waker exactly
\* when (its write accepted n > 0 bytes or was interrupted, and write_ready()
\* holds at the end) or (its read returned n > 0 bytes or was interrupted,
\* and read_ready() holds at the end); a poll that returns a terminal result
\* never wakes.
C19_RescheduleRule ==
    [][IsPoll =>
        LET wmark == \/ last'.write = "Ok" /\ last'.wn > 0
                     \/ last'.write = "Interrupted"
            rmark == \/ last'.read = "Ok" /\ last'.rn > 0
                     \/ last'.read = "Interrupted"
        IN  /\ scheduled' = last'.wake
            /\ result' = "Pending" =>
                  (last'.wake <=> \/ wmark /\ heads_write_ready(heads')
                                  \/ rmark /\ heads_read_ready(heads'))
            /\ result' # "Pending" => ~last'.wake
      ]_vars

\* Only the write made progress, it emptied the buffer, and the poll did not
\* wake although read_ready() holds and the reader is present.
C19_Witness ==
    /\ result = "Pending" /\ reader
    /\ last.read = "none"
    /\ last.write = "Ok" /\ last.wn >= 1
    /\ heads = ReadReady
    /\ ~last.wake /\ ~scheduled

\* C20: exact-fill scenario. With capacity 4 and a source that yields 4 bytes
\* and then end-of-input, the run goes Empty, Full after the read, Draining
\* with end-of-input observed while the buffer is still Full (before the
\* writes), Empty after the writes, Done.
C20_ExactFillOrder ==
    [][IsPoll =>
        /\ (heads = ReadReady /\ last'.read = "Ok" /\ last'.rn > 0) =>
              last'.mid = WriteReady(0)
        /\ (reader /\ ~reader') => last'.mid.tag = "WriteReady"
        /\ result' = "Ok" => (~reader' /\ heads' = ReadReady /\ sink' = Src)
      ]_vars

\* C20 as amended: the run goes Empty, Full after the read, then at least one
\* write takes bytes out while the reader is still present (no read is
\* attempted on the Full buffer), then Draining with end-of-input observed
\* on a buffer that is no longer Full, then Empty, and Done only from there.
C20_ExactFillOrderAmended ==
    [][IsPoll =>
        /\ (heads = ReadReady /\ last'.read = "Ok" /\ last'.rn > 0) =>
              last'.mid = WriteReady(0)
        /\ heads.tag = "WriteReady" => (last'.read = "none" /\ reader' = reader)
        /\ (reader /\ ~reader') =>
              /\ heads.tag # "WriteReady" /\ last'.mid.tag # "WriteReady"
              /\ Len(sink) >= 1
              /\ srcPos = srcLen
        /\ result' = "Ok" => (~reader' /\ heads' = ReadReady /\ sink' = Src)
      ]_vars

\* The scenario ran to Done: end-of-input was seen in an earlier poll than
\* the last write, which emptied the buffer.
C20_Witness ==
    /\ result = "Ok"
    /\ capacity = 4 /\ sink = Src /\ Len(sink) = 4
    /\ ~last.readerBefore
    /\ last.write = "Ok"
    /\ heads = ReadReady

====
